---------------------------- MODULE Spec2Model ----------------------------
(***************************************************************************)
(* DirCrypt: a directory tree is encrypted or decrypted file by file on a  *)
(* process pool.  Two specifications are given.                            *)
(*                                                                         *)
(*   SpecCipher  the chunk codec of cryptor.py (Encryptor._encrypt,        *)
(*               Decryptor._decrypt) applied to bounded inputs.            *)
(*   Spec        one run of __main__.main: the coordinator, the pool       *)
(*               workers, DirectoryBuilder's shared map and lock, and the  *)
(*               output file system.                                       *)
(*                                                                         *)
(* Bytes are naturals below 256, byte strings are sequences of bytes, and  *)
(* Python's Optional results are records [ok, val].                        *)
(***************************************************************************)
EXTENDS Integers, Sequences, FiniteSets, TLC

(***************************************************************************)
(* State.                                                                  *)
(***************************************************************************)
\* SpecCipher
VARIABLES c_pc,     \* "idle", "sealed", "opened", "flipped", "truncated"
          c_psw,    \* the Encryptor's password
          c_plain,  \* the plaintext chunk handed to _encrypt
          c_wire,   \* the wire block _encrypt returned
          c_dpsw,   \* the Decryptor's password
          c_out,    \* what _decrypt returned
          c_read,   \* the block handed to _decrypt
          c_calls   \* history: the library calls that _decrypt made

cvars == <<c_pc, c_psw, c_plain, c_wire, c_dpsw, c_out, c_read, c_calls>>

\* Spec
VARIABLES host,            \* what the invocation finds: the target, the
                           \* password source, the output directory, and
                           \* whether the interpreter runs with __debug__
          _mode,           \* DirectoryBuilder._mode: "Encrypt" or "Decrypt"
          _psw,            \* its password, Cryptor._psw
          target,          \* the files below the target
          originals,       \* per file: its path items and its bytes
          translated,      \* history: per directory key, the number of
                           \* translations build_file_path made for it
          m_pc,            \* main: "parse_args", "force_create_dir", "submit",
                           \* "get", "finished", "crashed", "exited", "uncaught"
          pending,         \* files dir_walk has not yielded yet
          crypting_tasks,  \* run_dircrypt's list, in submission order
          get_i,           \* index of the next task.get()
          taskq,           \* the pool's queue of submitted, unstarted tasks
          running,         \* per worker process: its task, 0 when idle
          increment,       \* per worker process: gen_malformed_name.increment
          visited_dirs,    \* DirectoryBuilder._visited_dirs (manager.dict)
          lock,            \* DirectoryBuilder._lock: 0 free, else the holder
          task,            \* per task: its position and local variables
          fs,              \* output tree: path of each file |-> its inode
          content          \* per inode (named by the creating task): bytes

rvars == <<host, _mode, _psw, target, originals, translated, m_pc, pending, crypting_tasks, get_i, taskq,
           running, increment, visited_dirs, lock, task, fs, content>>

vars == <<cvars, rvars>>

(***************************************************************************)
(* Bounds of the model.                                                    *)
(***************************************************************************)
\* ioutils.BLOCK_SIZE is 16384; the model scales the chunk size down.
BLOCK_SIZE == 2
\* Number of distinct (salt, nonce) draws offered to one seal in SpecCipher.
MaxRand == 2
\* Pool(processes=num_available_cpus()): number of worker processes.
NumWorkers == 2
\* Largest number of files the directory walker yields in one run.
MaxFiles == 2

(***************************************************************************)
(* cryptor.py, security and derived parameters.                            *)
(***************************************************************************)
SALT_SIZE == 16
NONCE_SIZE == 12
CHACHA_TAG_SIZE == 16
ENC_READ_SIZE == BLOCK_SIZE
\* A plausible slip: a decrypting read size that leaves out the tag.
ReadSizeWithoutTag == ENC_READ_SIZE + SALT_SIZE + NONCE_SIZE
DEC_READ_SIZE == ENC_READ_SIZE + CHACHA_TAG_SIZE + SALT_SIZE + NONCE_SIZE
START_OF_NONCE == SALT_SIZE
END_OF_NONCE == START_OF_NONCE + NONCE_SIZE
START_OF_CIPHERTEXT == END_OF_NONCE

(***************************************************************************)
(* Python values.                                                          *)
(***************************************************************************)
None == [ok |-> FALSE, val |-> << >>]
Some(v) == [ok |-> TRUE, val |-> v]

\* s[a:b] of Python: 0-based, half open, both ends clamped to the length.
Slice(s, a, b) ==
  LET lo == IF a > Len(s) THEN Len(s) ELSE a
      hi == IF b > Len(s) THEN Len(s) ELSE b
  IN  IF hi <= lo THEN << >> ELSE [i \in 1..(hi - lo) |-> s[lo + i]]

\* s[a:] of Python.
SliceFrom(s, a) == Slice(s, a, Len(s))

RECURSIVE SumSeq(_)
SumSeq(s) == IF s = << >> THEN 0 ELSE s[1] + SumSeq(Tail(s))

RECURSIVE WeightedSum(_, _)
WeightedSum(s, i) ==
  IF i > Len(s) THEN 0 ELSE i * s[i] + WeightedSum(s, i + 1)

(***************************************************************************)
(* The library primitives the codec calls.  PBKDF2-HMAC-SHA256 and         *)
(* ChaCha20-Poly1305 are modelled by arithmetic stand-ins that keep what   *)
(* the callers rely on: the key is a deterministic function of password    *)
(* and salt that differs for different passwords, encryption adds a        *)
(* key- and nonce-dependent keystream and appends a 16 byte tag over key,  *)
(* nonce and ciphertext, decryption recomputes the tag and raises          *)
(* InvalidTag (here: None) on any mismatch.                                *)
(***************************************************************************)
derive_key(password, salt) == (password * 31 + SumSeq(salt)) % 251

KeyStream(key, nonce, i) == (key + 7 * nonce[1] + SumSeq(nonce) + 13 * i) % 256

Poly1305Tag(key, nonce, ct) ==
  [j \in 1..CHACHA_TAG_SIZE |->
     CASE j = 1 -> key
       [] j = 2 -> SumSeq(nonce) % 256
       [] j = 3 -> Len(ct) % 256
       [] j = 4 -> WeightedSum(ct, 1) % 251
       [] OTHER -> IF j - 4 <= Len(ct) THEN (ct[j - 4] + key + j) % 256
                                       ELSE (key + j) % 256]

\* ChaCha20Poly1305(key).encrypt(nonce, plaintext, None): ciphertext + tag.
WithTag(key, nonce, ct) == ct \o Poly1305Tag(key, nonce, ct)

ChaChaEncrypt(key, nonce, plaintext) ==
  WithTag(key, nonce, [i \in 1..Len(plaintext) |->
                         (plaintext[i] + KeyStream(key, nonce, i)) % 256])

\* A plausible slip: handing out the bytes although the tag does not match.
VerifiedUnchecked(key, nonce, ct, tg) ==
  Some([i \in 1..Len(ct) |-> (ct[i] + 256 - KeyStream(key, nonce, i)) % 256])

\* ChaCha20Poly1305(key).decrypt(nonce, data, None); None stands for InvalidTag.
Verified(key, nonce, ct, tg) ==
  IF tg # Poly1305Tag(key, nonce, ct)
  THEN None
  ELSE Some([i \in 1..Len(ct) |->
               (ct[i] + 256 - KeyStream(key, nonce, i)) % 256])

ChaChaDecrypt(key, nonce, data) ==
  IF Len(data) < CHACHA_TAG_SIZE THEN None
  ELSE Verified(key, nonce, Slice(data, 0, Len(data) - CHACHA_TAG_SIZE),
                SliceFrom(data, Len(data) - CHACHA_TAG_SIZE))

(***************************************************************************)
(* Encryptor._encrypt and Decryptor._decrypt.  The two os.urandom draws    *)
(* of _encrypt are parameters.                                             *)
(***************************************************************************)
\* A plausible slip: the nonce left out of the block.
EncryptWithoutNonce(plaintext, psw, salt, nonce) ==
  salt \o ChaChaEncrypt(derive_key(psw, salt), nonce, plaintext)

_encrypt(plaintext, psw, salt, nonce) ==
  salt \o nonce \o ChaChaEncrypt(derive_key(psw, salt), nonce, plaintext)

\* A plausible slip: rejecting a block whose ciphertext part is empty.
DecryptPartsStrict(psw, salt, nonce, ciphertext_and_tag) ==
  IF \/ Len(salt) # SALT_SIZE
     \/ Len(nonce) # NONCE_SIZE
     \/ Len(ciphertext_and_tag) <= CHACHA_TAG_SIZE
  THEN None
  ELSE ChaChaDecrypt(derive_key(psw, salt), nonce, ciphertext_and_tag)

\* _decrypt from its is_malformed test on, given the three slices.
DecryptParts(psw, salt, nonce, ciphertext_and_tag) ==
  IF \/ Len(salt) # SALT_SIZE
     \/ Len(nonce) # NONCE_SIZE
     \/ Len(ciphertext_and_tag) < CHACHA_TAG_SIZE
  THEN None
  ELSE ChaChaDecrypt(derive_key(psw, salt), nonce, ciphertext_and_tag)

_decrypt(ciphertext, psw) ==
  DecryptParts(psw, Slice(ciphertext, 0, SALT_SIZE),
               Slice(ciphertext, START_OF_NONCE, END_OF_NONCE),
               SliceFrom(ciphertext, START_OF_CIPHERTEXT))

\* A plausible slip: the key derived and the cipher tried before the lengths
\* are looked at.
DecryptCallsEager(salt, nonce, ciphertext_and_tag) ==
  <<"derive_key", "ChaCha20Poly1305.decrypt">>

\* The library calls _decrypt makes from its is_malformed test on, in order.
DecryptCalls(salt, nonce, ciphertext_and_tag) ==
  IF \/ Len(salt) # SALT_SIZE
     \/ Len(nonce) # NONCE_SIZE
     \/ Len(ciphertext_and_tag) < CHACHA_TAG_SIZE
  THEN << >>
  ELSE <<"derive_key", "ChaCha20Poly1305.decrypt">>

\* The same for the whole of _decrypt.
_decrypt_calls(ciphertext) ==
  DecryptCalls(Slice(ciphertext, 0, SALT_SIZE),
               Slice(ciphertext, START_OF_NONCE, END_OF_NONCE),
               SliceFrom(ciphertext, START_OF_CIPHERTEXT))

\* The value of os.urandom(SALT_SIZE) and os.urandom(NONCE_SIZE) at draw r.
SaltOf(r) == [i \in 1..SALT_SIZE |-> (17 * r + i) % 256]
NonceOf(r) == [i \in 1..NONCE_SIZE |-> (29 * r + 3 * i) % 256]


(***************************************************************************)
(* Text.  A str is a sequence of code points, bytes(s, "utf-8") and        *)
(* str(b, "utf-8") are modelled for one and two byte encodings; a lone     *)
(* surrogate (what pathlib gives for an undecodable file name byte) cannot *)
(* be encoded, and a byte that starts no valid sequence cannot be decoded. *)
(* A failed conversion is the raised UnicodeError: [ok |-> FALSE].         *)
(***************************************************************************)
IsSurrogate(cp) == cp >= 55296 /\ cp <= 57343

IsAscii(s) == \A i \in 1..Len(s) : s[i] < 128

RECURSIVE Utf8EncodeFrom(_, _)
Utf8EncodeFrom(s, i) ==
  IF i > Len(s) THEN << >>
  ELSE (IF s[i] < 128 THEN <<s[i]>>
        ELSE <<192 + (s[i] \div 64), 128 + (s[i] % 64)>>)
       \o Utf8EncodeFrom(s, i + 1)

\* bytes(s, "utf-8"); None is the raised UnicodeEncodeError.
Utf8Encode(s) ==
  IF \E i \in 1..Len(s) : IsSurrogate(s[i]) \/ s[i] >= 2048 THEN None
  ELSE IF IsAscii(s) THEN Some(s)
  ELSE Some(Utf8EncodeFrom(s, 1))

RECURSIVE Utf8DecodeFrom(_, _)
Utf8DecodeFrom(b, i) ==
  IF i > Len(b) THEN Some(<< >>)
  ELSE IF b[i] < 128
       THEN LET rest == Utf8DecodeFrom(b, i + 1)
            IN  IF rest.ok THEN Some(<<b[i]>> \o rest.val) ELSE None
  ELSE IF b[i] >= 194 /\ b[i] <= 223 /\ Len(b) > i
          /\ b[i + 1] >= 128 /\ b[i + 1] <= 191
       THEN LET rest == Utf8DecodeFrom(b, i + 2)
            IN  IF rest.ok
                THEN Some(<<(b[i] - 192) * 64 + (b[i + 1] - 128)>> \o rest.val)
                ELSE None
  ELSE None

\* str(b, "utf-8"); None is the raised UnicodeDecodeError.
Utf8Decode(b) == IF IsAscii(b) THEN Some(b) ELSE Utf8DecodeFrom(b, 1)

(***************************************************************************)
(* base64.urlsafe_b64encode and urlsafe_b64decode on byte strings.         *)
(* Characters are their ASCII codes; 61 is the pad character.              *)
(***************************************************************************)
B64Char(v) ==
  IF v < 26 THEN 65 + v
  ELSE IF v < 52 THEN 97 + (v - 26)
  ELSE IF v < 62 THEN 48 + (v - 52)
  ELSE IF v = 62 THEN 45 ELSE 95

\* The sextet of a character after the url-safe translation; 64: not in the
\* alphabet (such characters are skipped by the non-validating decoder).
B64Value(ch) ==
  IF ch >= 65 /\ ch <= 90 THEN ch - 65
  ELSE IF ch >= 97 /\ ch <= 122 THEN ch - 97 + 26
  ELSE IF ch >= 48 /\ ch <= 57 THEN ch - 48 + 52
  ELSE IF ch = 45 \/ ch = 43 THEN 62
  ELSE IF ch = 95 \/ ch = 47 THEN 63
  ELSE 64

\* Byte k (from 1) of b, 0 past its end.
ByteAt(b, k) == IF k <= Len(b) THEN b[k] ELSE 0

\* Character j (0..3) of the group encoding the bytes b1 b2 b3.
GroupChar(b1, b2, b3, j) ==
  CASE j = 0 -> b1 \div 4
    [] j = 1 -> (b1 % 4) * 16 + (b2 \div 16)
    [] j = 2 -> (b2 % 16) * 4 + (b3 \div 64)
    [] OTHER -> b3 % 64

urlsafe_b64encode(b) ==
  [k \in 1..(4 * ((Len(b) + 2) \div 3)) |->
     LET g == (k - 1) \div 4
         j == (k - 1) % 4
     IN  IF 3 * g + j > Len(b) THEN 61
         ELSE B64Char(GroupChar(ByteAt(b, 3 * g + 1), ByteAt(b, 3 * g + 2),
                                ByteAt(b, 3 * g + 3), j))]

(***************************************************************************)
(* binascii.a2b_base64 in its non-strict mode, as urlsafe_b64decode calls  *)
(* it: characters outside the alphabet are skipped; with quad_pos the      *)
(* number of data characters read so far modulo 4, a pad character read at *)
(* quad_pos >= 2 counts, and decoding stops once quad_pos plus the counted *)
(* pads reach 4; input that ends at quad_pos # 0 is binascii.Error (None). *)
(***************************************************************************)
IsData(ch) == B64Value(ch) < 64

DataBefore(s, i) == Cardinality({j \in 1..(i - 1) : IsData(s[j])})

\* The pad characters read since the last data character before position i.
PadsBefore(s, i) ==
  Cardinality({j \in 1..(i - 1) :
                 s[j] = 61 /\ \A k \in (j + 1)..(i - 1) : ~IsData(s[k])})

StopRule(quad_pos, pads) == quad_pos >= 2 /\ quad_pos + pads + 1 >= 4

StopsAt(s, i) ==
  s[i] = 61 /\ StopRule(DataBefore(s, i) % 4, PadsBefore(s, i))

\* The least element of S, 0 when S is empty.
MinOrZero(S) == IF S = {} THEN 0 ELSE CHOOSE i \in S : \A j \in S : i <= j

\* Where decoding stops on complete padding; 0 when it reads all of s.
StopPos(s) == MinOrZero({i \in 1..Len(s) : StopsAt(s, i)})

Sextets(read) == [i \in 1..Len(read) |-> B64Value(read[i])]

\* Byte k (from 1) decoded from the sextets d.
DecodedByte(d, k) ==
  CASE (k - 1) % 3 = 0 ->
         d[4 * ((k - 1) \div 3) + 1] * 4 + (d[4 * ((k - 1) \div 3) + 2] \div 16)
    [] (k - 1) % 3 = 1 ->
         (d[4 * ((k - 1) \div 3) + 2] % 16) * 16
         + (d[4 * ((k - 1) \div 3) + 3] \div 4)
    [] OTHER ->
         (d[4 * ((k - 1) \div 3) + 3] % 4) * 64 + d[4 * ((k - 1) \div 3) + 4]

\* The bytes of the sextets d; stopped: decoding ended on padding.
DecodeSextets(d, stopped) ==
  IF ~stopped /\ Len(d) % 4 # 0 THEN None
  ELSE Some([k \in 1..(3 * (Len(d) \div 4)
                      + (IF Len(d) % 4 = 0 THEN 0 ELSE (Len(d) % 4) - 1)) |->
               DecodedByte(d, k)])

DecodeUpTo(s, stop) ==
  DecodeSextets(Sextets(SelectSeq(Slice(s, 0, IF stop = 0 THEN Len(s)
                                                   ELSE stop - 1), IsData)),
                stop # 0)

urlsafe_b64decode(s) == DecodeUpTo(s, StopPos(s))

(***************************************************************************)
(* Cryptor.crypt_path_name on strs.  The result is                         *)
(*   [tag |-> "value", val |-> str]   the returned str,                    *)
(*   [tag |-> "none"]                 the returned None,                   *)
(*   [tag |-> "raised"]               an exception left the call.          *)
(***************************************************************************)
Value(v) == [tag |-> "value", val |-> v]
ReturnedNone == [tag |-> "none", val |-> << >>]
Raised == [tag |-> "raised", val |-> << >>]

\* A plausible slip: the failed conversion of the name swallowed, None
\* returned as the Decryptor does for a name it cannot decode.
EncryptNameOrNone(psw, path_bytes, salt, nonce) ==
  IF ~path_bytes.ok THEN ReturnedNone
  ELSE Value(urlsafe_b64encode(_encrypt(path_bytes.val, psw, salt, nonce)))

EncryptName(psw, path_bytes, salt, nonce) ==
  IF ~path_bytes.ok THEN Raised
  ELSE Value(urlsafe_b64encode(_encrypt(path_bytes.val, psw, salt, nonce)))

Encryptor_crypt_path_name(psw, path_item_name, salt, nonce) ==
  EncryptName(psw, Utf8Encode(path_item_name), salt, nonce)

\* return str(plaintext_bytes, "utf-8")
DecodeName(name) == IF name.ok THEN Value(name.val) ELSE Raised

\* plaintext_bytes = self._decrypt(path_bytes) and what follows.
DecryptedName(plaintext_bytes) ==
  IF ~plaintext_bytes.ok THEN ReturnedNone
  ELSE DecodeName(Utf8Decode(plaintext_bytes.val))

\* The try block around urlsafe_b64decode and what follows.
DecryptName(psw, path_bytes) ==
  IF ~path_bytes.ok THEN ReturnedNone
  ELSE DecryptedName(_decrypt(path_bytes.val, psw))

DecryptNameBytes(psw, b64_path_bytes) ==
  IF ~b64_path_bytes.ok THEN Raised
  ELSE DecryptName(psw, urlsafe_b64decode(b64_path_bytes.val))

Decryptor_crypt_path_name(psw, path_item_name) ==
  DecryptNameBytes(psw, Utf8Encode(path_item_name))

(***************************************************************************)
(* SpecCipher: one seal followed by one open, on bounded inputs.           *)
(***************************************************************************)
Passwords == {1, 2}
ByteSamples == {0, 65, 255}

RECURSIVE SeqsUpTo(_, _)
SeqsUpTo(S, n) ==
  IF n = 0 THEN {<< >>}
  ELSE LET shorter == SeqsUpTo(S, n - 1)
       IN  shorter \cup {Append(s, x) : s \in shorter, x \in S}

Plaintexts == SeqsUpTo(ByteSamples, ENC_READ_SIZE)

CipherIdle ==
  /\ c_pc = "idle" /\ c_psw = 1 /\ c_plain = << >> /\ c_wire = << >>
  /\ c_dpsw = 1 /\ c_out = None /\ c_read = << >> /\ c_calls = << >>

CipherInit ==
  /\ c_pc = "idle"
  /\ c_psw \in Passwords
  /\ c_plain \in Plaintexts
  /\ c_wire = << >>
  /\ c_dpsw = 1
  /\ c_out = None
  /\ c_read = << >>
  /\ c_calls = << >>

Seal ==
  /\ c_pc = "idle"
  /\ \E r \in 1..MaxRand, q \in 1..MaxRand :
       c_wire' = _encrypt(c_plain, c_psw, SaltOf(r), NonceOf(q))
  /\ c_pc' = "sealed"
  /\ UNCHANGED <<c_psw, c_plain, c_dpsw, c_out, c_read, c_calls, rvars>>

Open ==
  /\ c_pc = "sealed"
  /\ \E p \in Passwords :
       /\ c_dpsw' = p
       /\ c_out' = _decrypt(c_wire, p)
  /\ c_read' = c_wire
  /\ c_calls' = _decrypt_calls(c_wire)
  /\ c_pc' = "opened"
  /\ UNCHANGED <<c_psw, c_plain, c_wire, rvars>>

\* The byte x with bit number bit inverted.
FlipBit(x, bit) ==
  IF (x \div (2 ^ bit)) % 2 = 0 THEN x + 2 ^ bit ELSE x - 2 ^ bit

\* The positions (from 1) of the ciphertext and tag region of a block.
CiphertextAndTag(block) == (START_OF_CIPHERTEXT + 1)..Len(block)

\* The sealed block reaches _decrypt with one bit of its ciphertext or tag
\* region inverted.
OpenFlipped ==
  /\ c_pc = "sealed"
  /\ \E p \in Passwords, i \in CiphertextAndTag(c_wire), bit \in 0..7 :
       /\ c_dpsw' = p
       /\ c_read' = [c_wire EXCEPT ![i] = FlipBit(@, bit)]
       /\ c_out' = _decrypt(c_read', p)
  /\ c_calls' = _decrypt_calls(c_read')
  /\ c_pc' = "flipped"
  /\ UNCHANGED <<c_psw, c_plain, c_wire, rvars>>

\* Only the first n bytes of the sealed block reach _decrypt (a block cut
\* short on disk).
OpenTruncated ==
  /\ c_pc = "sealed"
  /\ \E p \in Passwords, n \in 0..(Len(c_wire) - 1) :
       /\ c_dpsw' = p
       /\ c_read' = Slice(c_wire, 0, n)
       /\ c_out' = _decrypt(c_read', p)
  /\ c_calls' = _decrypt_calls(c_read')
  /\ c_pc' = "truncated"
  /\ UNCHANGED <<c_psw, c_plain, c_wire, rvars>>


(***************************************************************************)
(* Path items of the run.  A path item is a str; the state keeps it as a   *)
(* descriptor and ItemStr gives the str it stands for:                     *)
(*   key = 0   the plain name s followed by sfx,                           *)
(*   key > 0   the token Encryptor.crypt_path_name returns for the name s  *)
(*             under password key with the os.urandom draw rnd, followed   *)
(*             by sfx; dmg = 1 flips one tag byte of the sealed block.     *)
(***************************************************************************)
MALFORMED_CONTENTS == "_MALFORMED_CONTENTS"

Plain(n) == [s |-> n, key |-> 0, rnd |-> 0, dmg |-> 0, sfx |-> ""]
Tok(n, k, r, d) == [s |-> n, key |-> k, rnd |-> r, dmg |-> d, sfx |-> ""]
\* Python's None where a path item is expected.
NoItem == [s |-> "", key |-> -1, rnd |-> 0, dmg |-> 0, sfx |-> ""]

\* The names of the modelled trees with their code points.  "s<dc80>" is a
\* name with a lone surrogate; "<ff>" names the byte string b"\xff", which
\* is no str at all and occurs only sealed inside a token.
KnownNames == {"a", "b", "f", "g", "x", "f_MALFORMED_CONTENTS", "s<dc80>"}

Codes(n) ==
  CASE n = "a" -> <<97>>
    [] n = "b" -> <<98>>
    [] n = "f" -> <<102>>
    [] n = "g" -> <<103>>
    [] n = "x" -> <<120>>
    [] n = "f_MALFORMED_CONTENTS" ->
         <<102, 95, 77, 65, 76, 70, 79, 82, 77, 69, 68,
           95, 67, 79, 78, 84, 69, 78, 84, 83>>
    [] n = "s<dc80>" -> <<115, 56448>>

NameOfCodes(c) == CHOOSE n \in KnownNames : Codes(n) = c

\* The bytes sealed inside a token for the name n.
SealedBytes(n) == IF n = "<ff>" THEN <<255>> ELSE Utf8Encode(Codes(n)).val

\* The byte string b with its last byte changed, if on.
FlipLast(b, on) == IF on THEN [b EXCEPT ![Len(b)] = (@ + 1) % 256] ELSE b

ItemStr(it) ==
  IF it.key = 0 THEN Codes(it.s)
  ELSE urlsafe_b64encode(FlipLast(_encrypt(SealedBytes(it.s), it.key,
                                           SaltOf(it.rnd), NonceOf(it.rnd)),
                                  it.dmg = 1))

(***************************************************************************)
(* Cryptor.crypt_path_name on path items: the str operation applied to     *)
(* ItemStr, its result given as a descriptor again.  draw is the           *)
(* os.urandom draw an Encryptor makes in this call.                        *)
(***************************************************************************)
CryptStr(mode, psw, s, draw) ==
  IF mode = "Encrypt"
  THEN Encryptor_crypt_path_name(psw, s, SaltOf(draw), NonceOf(draw))
  ELSE Decryptor_crypt_path_name(psw, s)

\* The descriptor of the result r of crypting the str of it.
Described(mode, psw, it, draw, r) ==
  IF r.tag # "value" THEN [tag |-> r.tag, val |-> NoItem]
  ELSE IF mode = "Encrypt" THEN [tag |-> "value", val |-> Tok(it.s, psw, draw, 0)]
  ELSE [tag |-> "value", val |-> Plain(NameOfCodes(r.val))]

crypt_path_name(mode, psw, it, draw) ==
  Described(mode, psw, it, draw, CryptStr(mode, psw, ItemStr(it), draw))

(***************************************************************************)
(* File contents of the target tree.  A content descriptor stands for the  *)
(* bytes SrcBytes gives: key = 0 the bytes pt themselves, key > 0 the      *)
(* output of encrypting pt chunk by chunk under password key, with the     *)
(* block of chunk number dmg (if any) damaged in its last tag byte.        *)
(***************************************************************************)
RECURSIVE SealedStream(_, _, _, _)
SealedStream(pt, key, dmg, n) ==
  IF pt = << >> THEN << >>
  ELSE FlipLast(_encrypt(Slice(pt, 0, ENC_READ_SIZE), key,
                         SaltOf(100 + n), NonceOf(100 + n)),
                dmg = n)
       \o SealedStream(SliceFrom(pt, ENC_READ_SIZE), key, dmg, n + 1)

SrcBytes(c) == IF c.key = 0 THEN c.pt ELSE SealedStream(c.pt, c.key, c.dmg, 1)

\* Five bytes: three chunks when BLOCK_SIZE is 2.
Hello == <<104, 101, 108, 108, 111>>

\* A file whose length is an exact multiple of the chunk size.
TwoChunks == [i \in 1..(2 * ENC_READ_SIZE) |-> i]

(***************************************************************************)
(* The files a target may hold: dirs are the path items between the root   *)
(* (the parent of the target) and the file, the target directory's own     *)
(* name first; file is the terminal path item.  Files 1 to 7 lie in a tree *)
(* "a" encrypted under password 1, parts of which were damaged afterwards; *)
(* files 8 to 11 lie in a plain tree "a"; file 12 is a target that is a    *)
(* single plain file; file 13 is a plain file, its name not valid UTF-8,   *)
(* that was put into the encrypted tree; files 14 and 15 lie in a          *)
(* directory of the plain tree whose name is not valid UTF-8.              *)
(***************************************************************************)
Universe ==
  <<[dirs |-> <<Tok("a", 1, 1, 0), Tok("b", 1, 2, 0)>>, file |-> Tok("f", 1, 3, 0),
     content |-> [pt |-> Hello, key |-> 1, dmg |-> 2]],
    [dirs |-> <<Tok("a", 1, 1, 0), Tok("b", 1, 2, 0)>>,
     file |-> Tok("f_MALFORMED_CONTENTS", 1, 5, 0),
     content |-> [pt |-> <<1>>, key |-> 1, dmg |-> 1]],
    [dirs |-> <<Tok("a", 1, 1, 0)>>, file |-> Tok("g", 1, 4, 0),
     content |-> [pt |-> <<7, 8, 9>>, key |-> 1, dmg |-> 0]],
    [dirs |-> <<Tok("a", 1, 1, 0), Tok("b", 1, 6, 1)>>, file |-> Tok("f", 1, 3, 0),
     content |-> [pt |-> << >>, key |-> 1, dmg |-> 0]],
    [dirs |-> <<Tok("a", 1, 1, 0), Plain("x")>>, file |-> Tok("f", 1, 3, 0),
     content |-> [pt |-> <<104, 105>>, key |-> 0, dmg |-> 0]],
    [dirs |-> <<Tok("a", 1, 1, 0)>>, file |-> Tok("<ff>", 1, 7, 0),
     content |-> [pt |-> <<1>>, key |-> 1, dmg |-> 0]],
    [dirs |-> <<Tok("a", 1, 1, 0), Tok("b", 1, 2, 0)>>, file |-> Tok("g", 1, 8, 0),
     content |-> [pt |-> << >>, key |-> 1, dmg |-> 0]],
    [dirs |-> <<Plain("a"), Plain("b")>>, file |-> Plain("f"),
     content |-> [pt |-> Hello, key |-> 0, dmg |-> 0]],
    [dirs |-> <<Plain("a"), Plain("b")>>, file |-> Plain("g"),
     content |-> [pt |-> << >>, key |-> 0, dmg |-> 0]],
    [dirs |-> <<Plain("a"), Plain("x")>>, file |-> Plain("f"),
     content |-> [pt |-> TwoChunks, key |-> 0, dmg |-> 0]],
    [dirs |-> <<Plain("a")>>, file |-> Plain("s<dc80>"),
     content |-> [pt |-> <<1>>, key |-> 0, dmg |-> 0]],
    [dirs |-> << >>, file |-> Plain("f"),
     content |-> [pt |-> <<1>>, key |-> 0, dmg |-> 0]],
    [dirs |-> <<Tok("a", 1, 1, 0)>>, file |-> Plain("s<dc80>"),
     content |-> [pt |-> <<1>>, key |-> 0, dmg |-> 0]],
    [dirs |-> <<Plain("a"), Plain("s<dc80>")>>, file |-> Plain("f"),
     content |-> [pt |-> <<1>>, key |-> 0, dmg |-> 0]],
    [dirs |-> <<Plain("a"), Plain("s<dc80>")>>, file |-> Plain("g"),
     content |-> [pt |-> <<1>>, key |-> 0, dmg |-> 0]]>>

\* The bytes of each file of Universe.
SrcTable == [t \in 1..Len(Universe) |-> SrcBytes(Universe[t].content)]

EncryptedFiles == (1..7) \cup {13}
PlainFiles == (8..12) \cup {14, 15}
\* The encrypted files nothing was damaged in: what Encrypt under password 1
\* wrote for a/g and a/b/g.
IntactFiles == {3, 7}

\* dir_walk(target) yields F: one file if the target is a file, else files
\* below the one target directory.
OneTarget(F) ==
  \A f \in F, g \in F :
     f # g => /\ Universe[f].dirs # << >>
              /\ Universe[g].dirs # << >>
              /\ Universe[f].dirs[1] = Universe[g].dirs[1]

Walks(S) ==
  {G \in SUBSET S : G # {} /\ Cardinality(G) <= MaxFiles /\ OneTarget(G)}

\* What a run is started on: the mode, its password, the files under target.
Runs ==
  {[mode |-> "Decrypt", psw |-> p, files |-> F] :
     p \in Passwords, F \in Walks(EncryptedFiles)}
  \cup
  {[mode |-> "Encrypt", psw |-> 1, files |-> F] : F \in Walks(PlainFiles)}


(***************************************************************************)
(* The run: __main__.main with routines.crypt_path_and_contents as the     *)
(* pool's tasks.  A task is named by the number of its file in Universe.   *)
(* Output paths are sequences of path items below output_dir.              *)
(***************************************************************************)
Workers == 1..NumWorkers

\* The file of Universe numbered t as dir_walk yields it.
Original(t) ==
  [dirs |-> Universe[t].dirs, file |-> Universe[t].file,
   content |-> Universe[t].content, bytes |-> SrcTable[t]]

File(t) == originals[t]

\* The attribute gen_malformed_name.increment does not exist yet.
NoAttribute == -1

NewTask ==
  [pc |-> "walk", i |-> 0, crypted_path |-> << >>, new_dir |-> NoItem,
   fd |-> 0, pos |-> 0, cand |-> NoItem, li |-> 0, out |-> "",
   malformed_file |-> << >>, stdout |-> << >>]

\* What an invocation can find.  target: the <target> argument is a file or
\* directory, or neither.  psw: the password is typed or its file is read, or
\* the file operation raises OSError.  output: mkdir of the output directory
\* succeeds, raises PermissionError, or raises another OSError.
Hosts ==
  [target : {"ok", "missing"}, psw : {"ok", "OSError"},
   output : {"ok", "PermissionError", "OSError"}, debug : BOOLEAN]

HostOk == [target |-> "ok", psw |-> "ok", output |-> "ok", debug |-> TRUE]

RunIdle ==
  /\ host = HostOk
  /\ _mode = "Encrypt" /\ _psw = 1 /\ target = {} /\ originals = << >>
  /\ translated = << >>
  /\ m_pc = "finished" /\ pending = {} /\ crypting_tasks = << >> /\ get_i = 1
  /\ taskq = << >> /\ running = [w \in Workers |-> 0]
  /\ increment = [w \in Workers |-> NoAttribute]
  /\ visited_dirs = << >> /\ lock = 0 /\ task = << >>
  /\ fs = << >> /\ content = << >>

RunInit ==
  /\ host \in Hosts
  /\ \E r \in Runs : _mode = r.mode /\ _psw = r.psw /\ target = r.files
  /\ originals = [t \in target |-> Original(t)]
  /\ translated = << >>
  /\ m_pc = "parse_args"
  /\ pending = target
  /\ crypting_tasks = << >>
  /\ get_i = 1
  /\ taskq = << >>
  /\ running = [w \in Workers |-> 0]
  /\ increment = [w \in Workers |-> NoAttribute]
  /\ visited_dirs = << >>
  /\ lock = 0
  /\ task = [t \in target |-> NewTask]
  /\ fs = << >>
  /\ content = << >>

(***************************************************************************)
(* Helpers of the task steps.                                              *)
(***************************************************************************)
\* The os.urandom draw of task t at its k-th sealing call: never repeated.
Draw(t, k) == 16 * t + k

\* name + text for a path item's name.
AppendText(it, text) ==
  IF it.key = 0 THEN [it EXCEPT !.s = @ \o text] ELSE [it EXCEPT !.sfx = @ \o text]

Front(p) == SubSeq(p, 1, Len(p) - 1)
Last(p) == p[Len(p)]

IsFile(p) == p \in DOMAIN fs
IsDir(p) == \E q \in DOMAIN fs : Len(q) > Len(p) /\ SubSeq(q, 1, Len(p)) = p
\* A proper ancestor of p is an existing file: mkdir(parents=True) fails.
AncestorIsFile(p) == \E n \in 1..(Len(p) - 1) : IsFile(SubSeq(p, 1, n))

\* ioutils.gen_malformed_name in worker process w: the name and the new
\* value of the process's counter.
gen_malformed_name(w, is_dir) ==
  LET n == IF increment[w] = NoAttribute THEN 0 ELSE increment[w]
  IN  [name |-> Plain((IF is_dir THEN "MALFORMED_DIR_NAME_"
                                 ELSE "MALFORMED_FILE_NAME_") \o ToString(n)),
       next |-> n + 1]

read_len == IF _mode = "Encrypt" THEN ENC_READ_SIZE ELSE DEC_READ_SIZE
write_len == IF _mode = "Encrypt" THEN DEC_READ_SIZE ELSE ENC_READ_SIZE

\* Cryptor.crypt_file_contents
crypt_file_contents(data, draw) ==
  IF _mode = "Encrypt"
  THEN Some(_encrypt(data, _psw, SaltOf(draw), NonceOf(draw)))
  ELSE _decrypt(data, _psw)

\* A printed line: its kind and the destination paths its text names.
Line(kind, names) == [kind |-> kind, names |-> names]

\* aux.debug_print
debug_print(line) == IF host.debug THEN <<line>> ELSE << >>

\* The task ends (returns or raises) having printed lines, and its worker
\* takes the next task.
Ends(w, t, pc, out, lines) ==
  /\ task' = [task EXCEPT ![t].pc = pc, ![t].out = out,
                          ![t].stdout = @ \o lines]
  /\ running' = [running EXCEPT ![w] = 0]

(***************************************************************************)
(* The pool: an idle worker takes the oldest queued task and enters        *)
(* crypt_path_and_contents, build_file_path up to its loop.                *)
(***************************************************************************)
Dispatch(w) ==
  /\ m_pc \in {"submit", "get"}
  /\ running[w] = 0
  /\ taskq # << >>
  /\ LET t == Head(taskq)
     IN  /\ running' = [running EXCEPT ![w] = t]
         /\ task' = [task EXCEPT ![t].pc = IF File(t).dirs = << >>
                                            THEN "file" ELSE "lock",
                                 ![t].i = 1]
  /\ taskq' = Tail(taskq)
  /\ UNCHANGED <<cvars, host, _mode, _psw, target, originals, translated,
                 m_pc, pending, crypting_tasks, get_i,
                 increment, visited_dirs, lock, fs, content>>

(***************************************************************************)
(* DirectoryBuilder.build_file_path, one intermediate path item:           *)
(* with self._lock / get / crypt_path_name, gen_malformed_name and the     *)
(* insertion / leaving the with block and crypted_path.append.             *)
(***************************************************************************)
\* A plausible slip: taking the lock without waiting for it.
LockAcquireUnguarded(w) ==
  /\ running[w] # 0
  /\ task[running[w]].pc = "lock"
  /\ lock' = running[w]
  /\ task' = [task EXCEPT ![running[w]].pc = "get"]
  /\ UNCHANGED <<cvars, host, _mode, _psw, target, originals, translated,
                 m_pc, pending, crypting_tasks, get_i,
                 taskq, running, increment, visited_dirs, fs, content>>

LockAcquire(w) ==
  /\ running[w] # 0
  /\ task[running[w]].pc = "lock"
  /\ lock = 0
  /\ lock' = running[w]
  /\ task' = [task EXCEPT ![running[w]].pc = "get"]
  /\ UNCHANGED <<cvars, host, _mode, _psw, target, originals, translated,
                 m_pc, pending, crypting_tasks, get_i,
                 taskq, running, increment, visited_dirs, fs, content>>

PathId(t) == SubSeq(File(t).dirs, 1, task[t].i)

\* A plausible slip: computing and inserting without looking at the entry.
DictGetMiss(w) ==
  /\ running[w] # 0
  /\ task[running[w]].pc = "get"
  /\ task' = [task EXCEPT ![running[w]].new_dir = NoItem,
                          ![running[w]].pc = "compute"]
  /\ UNCHANGED <<cvars, host, _mode, _psw, target, originals, translated,
                 m_pc, pending, crypting_tasks, get_i,
                 taskq, running, increment, visited_dirs, lock, fs, content>>

\* new_dir = self._visited_dirs.get(path_id, None) and the test that follows.
DictGet(w) ==
  /\ running[w] # 0
  /\ task[running[w]].pc = "get"
  /\ LET t == running[w]
     IN  IF PathId(t) \in DOMAIN visited_dirs
         THEN task' = [task EXCEPT ![t].new_dir = visited_dirs[PathId(t)],
                                   ![t].pc = "unlock"]
         ELSE task' = [task EXCEPT ![t].new_dir = NoItem, ![t].pc = "compute"]
  /\ UNCHANGED <<cvars, host, _mode, _psw, target, originals, translated,
                 m_pc, pending, crypting_tasks, get_i,
                 taskq, running, increment, visited_dirs, lock, fs, content>>

\* self._visited_dirs[path_id] = new_dir
DictSet(key, new_dir) == visited_dirs' = (key :> new_dir) @@ visited_dirs

\* What follows the call of crypt_path_name in the with block, r being its
\* result and g the sentinel gen_malformed_name would return.
InsertNewDir(w, t, r, g) ==
  CASE r.tag = "raised" ->
         \* the exception leaves the with block, which releases the lock
         /\ lock' = 0
         /\ Ends(w, t, "raised", "", << >>)
         /\ UNCHANGED <<increment, visited_dirs>>
    [] r.tag = "value" ->
         /\ DictSet(PathId(t), r.val)
         /\ task' = [task EXCEPT ![t].new_dir = r.val, ![t].pc = "unlock"]
         /\ UNCHANGED <<increment, running, lock>>
    [] OTHER ->
         /\ increment' = [increment EXCEPT ![w] = g.next]
         /\ DictSet(PathId(t), g.name)
         /\ task' = [task EXCEPT ![t].new_dir = g.name, ![t].pc = "unlock"]
         /\ UNCHANGED <<running, lock>>

\* The history of translations with one more for key.
Counted(key) ==
  IF key \in DOMAIN translated
  THEN [translated EXCEPT ![key] = @ + 1]
  ELSE (key :> 1) @@ translated

ComputeAndInsert(w) ==
  /\ running[w] # 0
  /\ task[running[w]].pc = "compute"
  /\ translated' = Counted(PathId(running[w]))
  /\ InsertNewDir(w, running[w],
                  crypt_path_name(_mode, _psw,
                                  File(running[w]).dirs[task[running[w]].i],
                                  Draw(running[w], task[running[w]].i)),
                  gen_malformed_name(w, TRUE))
  /\ UNCHANGED <<cvars, host, _mode, _psw, target, originals,
                 m_pc, pending, crypting_tasks, get_i,
                 taskq, fs, content>>

LockRelease(w) ==
  /\ running[w] # 0
  /\ task[running[w]].pc = "unlock"
  /\ LET t == running[w]
     IN  task' = [task EXCEPT
                    ![t].crypted_path = Append(@, task[t].new_dir),
                    ![t].i = IF @ < Len(File(t).dirs) THEN @ + 1 ELSE @,
                    ![t].pc = IF task[t].i < Len(File(t).dirs)
                              THEN "lock" ELSE "file"]
  /\ lock' = 0
  /\ UNCHANGED <<cvars, host, _mode, _psw, target, originals, translated,
                 m_pc, pending, crypting_tasks, get_i,
                 taskq, running, increment, visited_dirs, fs, content>>

\* What follows the call of crypt_path_name for the terminal path item.
AppendFileName(w, t, r, g) ==
  CASE r.tag = "raised" ->
         /\ Ends(w, t, "raised", "", << >>)
         /\ UNCHANGED increment
    [] r.tag = "value" ->
         /\ task' = [task EXCEPT ![t].crypted_path = Append(@, r.val),
                                 ![t].pc = "create"]
         /\ UNCHANGED <<increment, running>>
    [] OTHER ->
         /\ increment' = [increment EXCEPT ![w] = g.next]
         /\ task' = [task EXCEPT ![t].crypted_path = Append(@, g.name),
                                 ![t].pc = "create"]
         /\ UNCHANGED running

\* A plausible slip: the terminal path item handled like a directory, its
\* translation stored in the map under the whole path.
CryptFileNameCached(w) ==
  /\ running[w] # 0
  /\ task[running[w]].pc = "file"
  /\ AppendFileName(w, running[w],
                    crypt_path_name(_mode, _psw, File(running[w]).file,
                                    Draw(running[w], 0)),
                    gen_malformed_name(w, FALSE))
  /\ DictSet(Append(File(running[w]).dirs, File(running[w]).file),
             File(running[w]).file)
  /\ UNCHANGED <<cvars, host, _mode, _psw, target, originals, translated,
                 m_pc, pending, crypting_tasks, get_i,
                 taskq, lock, fs, content>>

\* build_file_path, the terminal path item, and its return.
CryptFileName(w) ==
  /\ running[w] # 0
  /\ task[running[w]].pc = "file"
  /\ AppendFileName(w, running[w],
                    crypt_path_name(_mode, _psw, File(running[w]).file,
                                    Draw(running[w], 0)),
                    gen_malformed_name(w, FALSE))
  /\ UNCHANGED <<cvars, host, _mode, _psw, target, originals, translated,
                 m_pc, pending, crypting_tasks, get_i,
                 taskq, visited_dirs, lock, fs, content>>

(***************************************************************************)
(* crypt_path_and_contents after build_file_path.  An OSError is caught    *)
(* and printed (out = "oserror"); any other exception leaves the task      *)
(* (pc = "raised").                                                        *)
(***************************************************************************)
\* ioutils.create_path_and_file: mkdir(parents=True, exist_ok=True) and
\* touch(exist_ok=False).
create_path_and_file(w) ==
  /\ running[w] # 0
  /\ task[running[w]].pc = "create"
  /\ LET t == running[w]
         path == task[t].crypted_path
     IN  IF AncestorIsFile(path) \/ IsFile(path) \/ IsDir(path)
         THEN /\ Ends(w, t, "done", "oserror",
                      <<Line("Error handling",
                             IF AncestorIsFile(path) THEN {} ELSE {path})>>)
              /\ UNCHANGED <<fs, content>>
         ELSE /\ fs' = (path :> t) @@ fs
              /\ content' = (t :> << >>) @@ content
              /\ task' = [task EXCEPT ![t].pc = "open"]
              /\ UNCHANGED running
  /\ UNCHANGED <<cvars, host, _mode, _psw, target, originals, translated,
                 m_pc, pending, crypting_tasks, get_i,
                 taskq, increment, visited_dirs, lock>>

\* write_crypted_contents up to its loop: the assertions and
\* target.open(mode="wb"), which truncates the file now at that path.
OpenTarget(w) ==
  /\ running[w] # 0
  /\ task[running[w]].pc = "open"
  /\ LET t == running[w]
         path == task[t].crypted_path
     IN  IF ~IsFile(path)
         THEN /\ Ends(w, t, "raised", "", << >>)
              /\ UNCHANGED content
         ELSE /\ task' = [task EXCEPT ![t].fd = fs[path], ![t].pos = 0,
                                      ![t].pc = "chunk"]
              /\ content' = [content EXCEPT ![fs[path]] = << >>]
              /\ UNCHANGED running
  /\ UNCHANGED <<cvars, host, _mode, _psw, target, originals, translated,
                 m_pc, pending, crypting_tasks, get_i,
                 taskq, increment, visited_dirs, lock, fs>>

\* orig.read(self._mode.read_len) at offset pos of the file of task t.
ReadChunk(t, pos) == Slice(File(t).bytes, pos, pos + read_len)

\* The loop of write_crypted_contents from its test on: contents was read,
\* crypted_contents is its transform.  At the end of the source the function
\* returns True and the task prints its line; on a failed transform it
\* returns False.
Written(w, t, contents, crypted_contents) ==
  IF contents = << >>
  THEN /\ Ends(w, t, "done", "ok",
               debug_print(Line("->", {task[t].crypted_path})))
       /\ UNCHANGED content
  ELSE IF ~crypted_contents.ok
  THEN /\ task' = [task EXCEPT ![t].pc = "label"]
       /\ UNCHANGED <<running, content>>
  ELSE /\ content' = [content EXCEPT ![task[t].fd] = @ \o crypted_contents.val]
       /\ task' = [task EXCEPT ![t].pos = @ + read_len]
       /\ UNCHANGED running

Transformed(w, t, contents) ==
  Written(w, t, contents,
          crypt_file_contents(contents, Draw(t, 3 + (task[t].pos \div read_len))))

\* One round of the loop of write_crypted_contents: read, transform, write.
WriteChunk(w) ==
  /\ running[w] # 0
  /\ task[running[w]].pc = "chunk"
  /\ Transformed(w, running[w], ReadChunk(running[w], task[running[w]].pos))
  /\ UNCHANGED <<cvars, host, _mode, _psw, target, originals, translated,
                 m_pc, pending, crypting_tasks, get_i,
                 taskq, increment, visited_dirs, lock, fs>>

(***************************************************************************)
(* ioutils.label_malformed: the assertion and the first candidate name,    *)
(* one test of the collision loop, the rename.                             *)
(***************************************************************************)
CandPath(t) == Append(Front(task[t].crypted_path), task[t].cand)

LabelStart(w) ==
  /\ running[w] # 0
  /\ task[running[w]].pc = "label"
  /\ LET t == running[w]
     IN  IF ~IsFile(task[t].crypted_path)
         THEN Ends(w, t, "raised", "", << >>)
         ELSE /\ task' = [task EXCEPT
                            ![t].cand = AppendText(Last(task[t].crypted_path),
                                                   MALFORMED_CONTENTS),
                            ![t].li = 1,
                            ![t].pc = "probe"]
              /\ UNCHANGED running
  /\ UNCHANGED <<cvars, host, _mode, _psw, target, originals, translated,
                 m_pc, pending, crypting_tasks, get_i,
                 taskq, increment, visited_dirs, lock, fs, content>>

LabelProbe(w) ==
  /\ running[w] # 0
  /\ task[running[w]].pc = "probe"
  /\ LET t == running[w]
     IN  IF IsFile(CandPath(t))
         THEN task' = [task EXCEPT
                         ![t].cand = AppendText(@, ToString(task[t].li)),
                         ![t].li = @ + 1]
         ELSE task' = [task EXCEPT ![t].pc = "rename"]
  /\ UNCHANGED <<cvars, host, _mode, _psw, target, originals, translated,
                 m_pc, pending, crypting_tasks, get_i,
                 taskq, running, increment, visited_dirs, lock, fs, content>>

\* path.rename(malformed_file): os.rename replaces a file at the new name.
LabelRename(w) ==
  /\ running[w] # 0
  /\ task[running[w]].pc = "rename"
  /\ LET t == running[w]
         path == task[t].crypted_path
         new  == CandPath(t)
     IN  IF ~IsFile(path) \/ IsDir(new)
         THEN /\ Ends(w, t, "done", "oserror",
                      <<Line("Error handling", {path, new})>>)
              /\ UNCHANGED fs
         ELSE /\ fs' = [q \in (DOMAIN fs \ {path}) \cup {new} |->
                          IF q = new THEN fs[path] ELSE fs[q]]
              /\ task' = [task EXCEPT
                            ![t].pc = "done", ![t].out = "malformed",
                            ![t].malformed_file = new,
                            ![t].stdout = @ \o <<Line("contents failed", {new})>>
                                            \o debug_print(Line("->", {path}))]
              /\ running' = [running EXCEPT ![w] = 0]
  /\ UNCHANGED <<cvars, host, _mode, _psw, target, originals, translated,
                 m_pc, pending, crypting_tasks, get_i,
                 taskq, increment, visited_dirs, lock, content>>

(***************************************************************************)
(* main before run_dircrypt.  sys.exit ends the program with a message     *)
(* ("exited"); an exception nothing catches ends it with a traceback       *)
(* ("uncaught").                                                           *)
(***************************************************************************)
\* force_create_dir_or_exit with no test of the outcome of mkdir.
ForceCreateDirUnchecked ==
  /\ m_pc = "force_create_dir"
  /\ m_pc' = "submit"
  /\ UNCHANGED <<cvars, host, _mode, _psw, target, originals, translated,
                 pending, crypting_tasks, get_i, taskq,
                 running, increment, visited_dirs, lock, task, fs, content>>

\* __main__.parse_args: the target is tested first, then the Cryptor is
\* constructed, which reads or writes the password file.
parse_args ==
  /\ m_pc = "parse_args"
  /\ m_pc' = IF host.target = "missing" THEN "exited"
             ELSE IF host.psw = "OSError" THEN "exited"
             ELSE "force_create_dir"
  /\ UNCHANGED <<cvars, host, _mode, _psw, target, originals, translated,
                 pending, crypting_tasks, get_i, taskq,
                 running, increment, visited_dirs, lock, task, fs, content>>

\* ioutils.force_create_dir_or_exit: only PermissionError is caught.
force_create_dir_or_exit ==
  /\ m_pc = "force_create_dir"
  /\ m_pc' = IF host.output = "ok" THEN "submit"
             ELSE IF host.output = "PermissionError" THEN "exited"
             ELSE "uncaught"
  /\ UNCHANGED <<cvars, host, _mode, _psw, target, originals, translated,
                 pending, crypting_tasks, get_i, taskq,
                 running, increment, visited_dirs, lock, task, fs, content>>

(***************************************************************************)
(* The coordinator, run_dircrypt.                                          *)
(***************************************************************************)
\* dir_walk yields a file (in no particular order) and it is submitted.
Submit(f) ==
  /\ m_pc = "submit"
  /\ f \in pending
  /\ pending' = pending \ {f}
  /\ crypting_tasks' = Append(crypting_tasks, f)
  /\ taskq' = Append(taskq, f)
  /\ task' = [task EXCEPT ![f].pc = "queued"]
  /\ UNCHANGED <<cvars, host, _mode, _psw, target, originals, translated,
                 m_pc, get_i, running, increment,
                 visited_dirs, lock, fs, content>>

WalkEnds ==
  /\ m_pc = "submit"
  /\ pending = {}
  /\ m_pc' = "get"
  /\ UNCHANGED <<cvars, host, _mode, _psw, target, originals, translated,
                 pending, crypting_tasks, get_i, taskq,
                 running, increment, visited_dirs, lock, task, fs, content>>

\* task.get() of the next task returns once that task has returned.
GetReturns ==
  /\ m_pc = "get"
  /\ get_i <= Len(crypting_tasks)
  /\ task[crypting_tasks[get_i]].pc = "done"
  /\ get_i' = get_i + 1
  /\ UNCHANGED <<cvars, host, _mode, _psw, target, originals, translated,
                 m_pc, pending, crypting_tasks, taskq,
                 running, increment, visited_dirs, lock, task, fs, content>>

\* task.get() re-raises what the task raised; the exception leaves the
\* with Pool block, whose exit terminates the pool's worker processes.
GetRaises ==
  /\ m_pc = "get"
  /\ get_i <= Len(crypting_tasks)
  /\ task[crypting_tasks[get_i]].pc = "raised"
  /\ m_pc' = "crashed"
  /\ taskq' = << >>
  /\ running' = [w \in Workers |-> 0]
  /\ task' = [t \in target |->
                IF task[t].pc \in {"done", "raised"} THEN task[t]
                ELSE [task[t] EXCEPT !.pc = "killed"]]
  /\ UNCHANGED <<cvars, host, _mode, _psw, target, originals, translated,
                 pending, crypting_tasks, get_i,
                 increment, visited_dirs, lock, fs, content>>

\* Every get has returned: the pool is closed and 'Finished ...' is printed.
Finish ==
  /\ m_pc = "get"
  /\ get_i > Len(crypting_tasks)
  /\ m_pc' = "finished"
  /\ UNCHANGED <<cvars, host, _mode, _psw, target, originals, translated,
                 pending, crypting_tasks, get_i, taskq,
                 running, increment, visited_dirs, lock, task, fs, content>>

(***************************************************************************)
(* A second run: the program is started again, now to decrypt, under       *)
(* password p, the top-level item of the output tree an encrypting run has *)
(* finished writing.  The files it walks are the files that run wrote;     *)
(* the pool, the manager's map and lock and the output directory are new.  *)
(***************************************************************************)
\* The file task t wrote, as the file dir_walk yields to the second run.
WrittenFile(t) ==
  [dirs |-> Front(task[t].crypted_path), file |-> Last(task[t].crypted_path),
   content |-> [pt |-> File(t).content.pt, key |-> _psw, dmg |-> 0],
   bytes |-> content[fs[task[t].crypted_path]]]

DecryptOutput(p) ==
  /\ m_pc = "finished"
  /\ _mode = "Encrypt"
  /\ _mode' = "Decrypt"
  /\ _psw' = p
  /\ originals' = [t \in target |-> WrittenFile(t)]
  /\ translated' = << >>
  /\ m_pc' = "parse_args"
  /\ pending' = target
  /\ crypting_tasks' = << >>
  /\ get_i' = 1
  /\ taskq' = << >>
  /\ running' = [w \in Workers |-> 0]
  /\ increment' = [w \in Workers |-> NoAttribute]
  /\ visited_dirs' = << >>
  /\ lock' = 0
  /\ task' = [t \in target |-> NewTask]
  /\ fs' = << >>
  /\ content' = << >>
  /\ UNCHANGED <<cvars, host, target>>

(***************************************************************************)
(* The specifications.                                                     *)
(***************************************************************************)
WorkerStep(w) ==
  \/ Dispatch(w)
  \/ LockAcquire(w)
  \/ DictGet(w)
  \/ ComputeAndInsert(w)
  \/ LockRelease(w)
  \/ CryptFileName(w)
  \/ create_path_and_file(w)
  \/ OpenTarget(w)
  \/ WriteChunk(w)
  \/ LabelStart(w)
  \/ LabelProbe(w)
  \/ LabelRename(w)

Next ==
  \/ parse_args
  \/ force_create_dir_or_exit
  \/ \E f \in target : Submit(f)
  \/ WalkEnds
  \/ GetReturns
  \/ GetRaises
  \/ Finish
  \/ \E w \in Workers : WorkerStep(w)

Init == CipherIdle /\ RunInit

Spec == Init /\ [][Next]_vars

\* An encrypting run and then a decrypting run over what it wrote.
InitRoundTrip == Init /\ _mode = "Encrypt"

NextRoundTrip == Next \/ \E p \in Passwords : DecryptOutput(p)

SpecRoundTrip == InitRoundTrip /\ [][NextRoundTrip]_vars

CipherNext == Seal \/ Open \/ OpenFlipped \/ OpenTruncated

InitCipher == CipherInit /\ RunIdle

SpecCipher == InitCipher /\ [][CipherNext]_vars

(***************************************************************************)
(* Vocabulary of the properties.                                           *)
(***************************************************************************)
\* build_file_path has returned in task t: its destination path is complete.
Built(t) == Len(task[t].crypted_path) = Len(File(t).dirs) + 1

\* The first j intermediate path items of the file of task t.
DirKey(t, j) == SubSeq(File(t).dirs, 1, j)

Min(a, b) == IF a < b THEN a ELSE b

\* The names gen_malformed_name can return in a run.
DirSentinels ==
  {"MALFORMED_DIR_NAME_" \o ToString(n) : n \in 0..(3 * MaxFiles)}
FileSentinels ==
  {"MALFORMED_FILE_NAME_" \o ToString(n) : n \in 0..(3 * MaxFiles)}

IsDirSentinel(it) == it.key = 0 /\ it.s \in DirSentinels
IsFileSentinel(it) == it.key = 0 /\ it.s \in FileSentinels

\* The tasks inside the with self._lock block.
InLockedBlock == {t \in target : task[t].pc \in {"get", "compute", "unlock"}}

(***************************************************************************)
(* C1  Directory dedup under concurrency: in every reachable state, two    *)
(* tasks whose files share a cumulative ancestor directory key hold the    *)
(* same translated name for it in their destination paths, and at most one *)
(* task is inside the lookup / compute / insert block.                     *)
(***************************************************************************)
C1_DirectoryDedup ==
  /\ Cardinality(InLockedBlock) <= 1
  /\ \A t \in target, u \in target :
       \A j \in 1..Min(Min(Len(File(t).dirs), Len(File(u).dirs)),
                       Min(Len(task[t].crypted_path), Len(task[u].crypted_path))) :
          DirKey(t, j) = DirKey(u, j)
            => task[t].crypted_path[j] = task[u].crypted_path[j]

\* Two tasks in two worker processes at once, both past the shared
\* ancestor a/b, with the same translated name for it.
C1_Witness ==
  \E t \in target, u \in target :
     /\ t # u
     /\ running[1] = t /\ running[2] = u
     /\ Len(File(t).dirs) >= 2 /\ Len(File(u).dirs) >= 2
     /\ DirKey(t, 2) = DirKey(u, 2)
     /\ Len(task[t].crypted_path) >= 2 /\ Len(task[u].crypted_path) >= 2
     /\ task[t].crypted_path[2] = task[u].crypted_path[2]

(***************************************************************************)
(* C2  The directory map is write-once per key: no step changes or removes *)
(* an entry of _visited_dirs.                                              *)
(***************************************************************************)
C2_WriteOnce ==
  [][\A k \in DOMAIN visited_dirs :
        k \in DOMAIN visited_dirs' /\ visited_dirs'[k] = visited_dirs[k]]_vars

\* An encrypting task has just looked up a key another task inserted: the
\* name it holds was sealed with the other task's random draw.
C2_Witness ==
  \E t \in target :
     /\ _mode = "Encrypt"
     /\ task[t].pc = "unlock"
     /\ PathId(t) \in DOMAIN visited_dirs
     /\ task[t].new_dir = visited_dirs[PathId(t)]
     /\ task[t].new_dir.rnd # Draw(t, task[t].i)

(***************************************************************************)
(* C3  Sentinel uniqueness: the sentinels given to the malformed directory *)
(* segments of a run are pairwise distinct.                                *)
(***************************************************************************)
C3_SentinelsDistinct ==
  \A k1 \in DOMAIN visited_dirs, k2 \in DOMAIN visited_dirs :
     (k1 # k2 /\ IsDirSentinel(visited_dirs[k1]) /\ IsDirSentinel(visited_dirs[k2]))
       => visited_dirs[k1] # visited_dirs[k2]

(***************************************************************************)
(* C4  The output hierarchy is isomorphic to the original: a destination   *)
(* path has as many segments as the original has below the root, two       *)
(* originals share their first j directory segments exactly if their       *)
(* destinations share their first j segments, and distinct originals get   *)
(* distinct destinations.                                                  *)
(***************************************************************************)
C4_Isomorphic ==
  \A t \in target, u \in target :
     (Built(t) /\ Built(u)) =>
       /\ \A j \in 1..Min(Len(File(t).dirs), Len(File(u).dirs)) :
            (DirKey(t, j) = DirKey(u, j))
              <=> (SubSeq(task[t].crypted_path, 1, j)
                     = SubSeq(task[u].crypted_path, 1, j))
       /\ t # u => task[t].crypted_path # task[u].crypted_path

(***************************************************************************)
(* C5  Failure isolation: no failure inside a task leaves the task; the    *)
(* coordinator never receives one and no sibling task is terminated.       *)
(***************************************************************************)
C5_FailureIsolation ==
  /\ m_pc # "crashed"
  /\ \A t \in target : task[t].pc \notin {"raised", "killed"}

(***************************************************************************)
(* C6  Run completion: whenever the coordinator has left run_dircrypt,     *)
(* it has done so by finishing, every file the walker yielded was          *)
(* submitted and every submitted task has finished.                        *)
(***************************************************************************)
RunCompleted ==
  /\ m_pc = "finished"
  /\ pending = {}
  /\ \A t \in target : task[t].pc = "done"

C6_RunCompletion == m_pc \in {"finished", "crashed"} => RunCompleted

(***************************************************************************)
(* C7  Partial-failure content: a task whose decryption failed at chunk k  *)
(* leaves, at the relabeled destination, the file it wrote, holding        *)
(* exactly the first k-1 chunks of the plaintext.                          *)
(***************************************************************************)
\* The plaintext chunks before the first chunk of the file of task t that
\* does not open under the run's password.
DecodedBeforeFailure(t) ==
  IF File(t).content.key # _psw THEN << >>
  ELSE Slice(File(t).content.pt, 0, (File(t).content.dmg - 1) * ENC_READ_SIZE)

C7_PartialContent ==
  \A t \in target :
     task[t].out = "malformed" =>
       /\ task[t].malformed_file \in DOMAIN fs
       /\ fs[task[t].malformed_file] = task[t].fd
       /\ content[task[t].fd] = DecodedBeforeFailure(t)

(***************************************************************************)
(* C8  Relabeling is collision-free: no file that was created is ever      *)
(* replaced, so every file created in the run is still at some path.       *)
(***************************************************************************)
C8_NoFileReplaced ==
  \A n \in DOMAIN content : \E p \in DOMAIN fs : fs[p] = n

(***************************************************************************)
(* C9  Wrong-password decryption: when the encrypted tree is decrypted     *)
(* with another password than it was encrypted with, every directory and   *)
(* file name of the output is a sentinel, the sentinels are pairwise       *)
(* distinct, and every file's content is flagged malformed.                *)
(***************************************************************************)
\* The names of the output tree are pairwise distinct.
OutputNamesDistinct ==
  /\ \A k1 \in DOMAIN visited_dirs, k2 \in DOMAIN visited_dirs :
       k1 # k2 => visited_dirs[k1] # visited_dirs[k2]
  /\ \A t \in target, u \in target :
       t # u => Last(task[t].crypted_path) # Last(task[u].crypted_path)
  /\ \A k \in DOMAIN visited_dirs, t \in target :
       visited_dirs[k] # Last(task[t].crypted_path)

C9_WrongPassword ==
  (/\ _mode = "Decrypt" /\ _psw # 1 /\ target \subseteq IntactFiles
   /\ m_pc = "finished")
  => /\ \A k \in DOMAIN visited_dirs : IsDirSentinel(visited_dirs[k])
     /\ \A t \in target : IsFileSentinel(Last(task[t].crypted_path))
     /\ OutputNamesDistinct
     /\ \A t \in target : task[t].out = "malformed"

(***************************************************************************)
(* C10  Chunk round-trip: opening, under the password it was sealed with,  *)
(* the block _encrypt made of a plaintext of at most one chunk returns     *)
(* exactly that plaintext, whatever salt and nonce were drawn.             *)
(***************************************************************************)
C10_ChunkRoundTrip ==
  (c_pc = "opened" /\ c_dpsw = c_psw) => c_out = Some(c_plain)

\* The empty chunk, sealed and opened under the same password.
C10_Witness ==
  /\ c_pc = "opened" /\ c_dpsw = c_psw
  /\ c_plain = << >>
  /\ Len(c_wire) = SALT_SIZE + NONCE_SIZE + CHACHA_TAG_SIZE
  /\ c_out = Some(<< >>)

(***************************************************************************)
(* C11  Fail-closed decryption: a block that differs from a sealed block   *)
(* in one bit of its ciphertext or tag region opens to None, with no       *)
(* plaintext bytes, under every password; so does a sealed block under     *)
(* another password than the one it was sealed with.                       *)
(***************************************************************************)
C11_FailClosed ==
  /\ c_pc = "flipped" => c_out = None
  /\ (c_pc = "opened" /\ c_dpsw # c_psw) => c_out = None

\* A full chunk sealed, one bit of its last tag byte inverted, opened under
\* the sealing password.
C11_Witness ==
  /\ c_pc = "flipped" /\ c_dpsw = c_psw
  /\ Len(c_plain) = ENC_READ_SIZE
  /\ c_read # c_wire
  /\ c_read[Len(c_read)] # c_wire[Len(c_wire)]
  /\ c_out = None

(***************************************************************************)
(* C12  File-level round-trip: in the decrypting run over what an          *)
(* encrypting run wrote, under the same password, the i-th block a task    *)
(* reads is exactly the block the encrypting task made of the i-th chunk   *)
(* of the source, what it has written is the source up to that chunk,      *)
(* decryption never fails, and the finished file is the source, whatever   *)
(* its length.                                                             *)
(***************************************************************************)
\* The i-th (from 0) chunk of the source the file of task t was made of.
SourceChunk(t, i) ==
  Slice(File(t).content.pt, i * ENC_READ_SIZE, (i + 1) * ENC_READ_SIZE)

\* The block the encrypting task t wrote for that chunk; none past the end.
BlockOfChunk(t, i) ==
  IF SourceChunk(t, i) = << >> THEN << >>
  ELSE _encrypt(SourceChunk(t, i), File(t).content.key,
                SaltOf(Draw(t, 3 + i)), NonceOf(Draw(t, 3 + i)))

C12_FileRoundTrip ==
  \A t \in target :
     (_mode = "Decrypt" /\ File(t).content.key = _psw) =>
       /\ task[t].pc \notin {"label", "probe", "rename"}
       /\ task[t].pc = "chunk" =>
            /\ ReadChunk(t, task[t].pos)
                 = BlockOfChunk(t, task[t].pos \div DEC_READ_SIZE)
            /\ content[task[t].fd]
                 = Slice(File(t).content.pt, 0,
                         (task[t].pos \div DEC_READ_SIZE) * ENC_READ_SIZE)
       /\ task[t].pc = "done" =>
            /\ task[t].out = "ok"
            /\ content[fs[task[t].crypted_path]] = File(t).content.pt

\* A source of exactly two chunks has been encrypted and decrypted again.
C12_Witness ==
  \E t \in target :
     /\ _mode = "Decrypt" /\ File(t).content.key = _psw
     /\ Len(File(t).content.pt) = 2 * ENC_READ_SIZE
     /\ Len(File(t).bytes) = 2 * DEC_READ_SIZE
     /\ task[t].pc = "done" /\ task[t].out = "ok"
     /\ content[fs[task[t].crypted_path]] = File(t).content.pt

(***************************************************************************)
(* C13  Totality of Decryptor.crypt_path_name: no exception leaves it, so  *)
(* a decrypting task that ended by an exception had build_file_path        *)
(* return before.                                                          *)
(***************************************************************************)
C13_DecodeNeverRaises ==
  \A t \in target : (_mode = "Decrypt" /\ task[t].pc = "raised") => Built(t)

(***************************************************************************)
(* C14  At-most-once computation per directory key: over a run, the name   *)
(* of no cumulative directory key is translated more than once.            *)
(***************************************************************************)
C14_AtMostOnce == \A k \in DOMAIN translated : translated[k] <= 1

(***************************************************************************)
(* C15  No overwriting of existing output: a task opens for writing only   *)
(* the file it created itself, and of two tasks mapped to the same         *)
(* destination path at most one ever writes a file there, the other        *)
(* ending with a reported filesystem error.                                *)
(***************************************************************************)
\* Task t has opened a destination for writing.
HasWritten(t) == task[t].fd # 0

WritesOwnFile == \A t \in target : HasWritten(t) => task[t].fd = t

OneWriterPerPath ==
  \A t \in target, u \in target :
     (t # u /\ Built(t) /\ Built(u)
      /\ task[t].crypted_path = task[u].crypted_path)
       => /\ ~(HasWritten(t) /\ HasWritten(u))
          /\ (task[t].pc = "done" /\ task[u].pc = "done")
               => (task[t].out = "oserror" \/ task[u].out = "oserror")

C15_NoOverwrite == WritesOwnFile /\ OneWriterPerPath

(***************************************************************************)
(* C16  Configuration errors are fatal and happen first: when the target   *)
(* is missing, the password source is unreadable or the output directory   *)
(* cannot be created, no step ever submits a task or creates a destination *)
(* file, main never gets past its configuration steps, and no step is      *)
(* taken once the program has ended on the failure.                        *)
(***************************************************************************)
ConfigFails ==
  host.target = "missing" \/ host.psw # "ok" \/ host.output # "ok"

NothingProcessed ==
  /\ pending = target /\ crypting_tasks = << >> /\ taskq = << >>
  /\ \A t \in target : task[t] = NewTask
  /\ fs = << >> /\ content = << >> /\ visited_dirs = << >>

Terminated == m_pc \in {"exited", "uncaught"}

C16_ConfigFirst ==
  [][/\ ~Terminated
     /\ ConfigFails =>
          /\ NothingProcessed'
          /\ m_pc' \in {"force_create_dir", "exited", "uncaught"}]_vars

\* The output directory could not be created and the program has ended.
C16_Witness ==
  /\ host.target = "ok" /\ host.psw = "ok" /\ host.output # "ok"
  /\ Terminated /\ NothingProcessed

(***************************************************************************)
(* C17  Every relabeled or sentinel path is reported: a task that has      *)
(* ended and whose destination path holds a sentinel name has printed a    *)
(* line naming that path (or the relabeled path made from it), and a task  *)
(* whose destination was relabeled has printed a line naming the relabeled *)
(* path.                                                                   *)
(***************************************************************************)
HasSentinel(p) ==
  \E i \in 1..Len(p) : IsDirSentinel(p[i]) \/ IsFileSentinel(p[i])

\* Task t has printed a line naming destination path p.
Names(t, p) ==
  \E i \in 1..Len(task[t].stdout) : p \in task[t].stdout[i].names

HasEnded(t) == task[t].pc \in {"done", "raised", "killed"}

C17_SentinelsReported ==
  \A t \in target :
     /\ (HasEnded(t) /\ Built(t) /\ HasSentinel(task[t].crypted_path))
          => (Names(t, task[t].crypted_path)
              \/ (task[t].out = "malformed" /\ Names(t, task[t].malformed_file)))
     /\ task[t].out = "malformed" => Names(t, task[t].malformed_file)


(***************************************************************************)
(* C18  Independent sentinel counters: both kinds of sentinel are numbered *)
(* from 0 by counters of their own, so the n-th sentinel of a kind that a  *)
(* worker process generates is numbered n - 1 whatever it generated of the *)
(* other kind: of one task, the file sentinel's number does not depend on  *)
(* the directory sentinels generated before it.                            *)
(***************************************************************************)
\* The tasks worker process w has taken are not recorded; with one task in
\* the run, every sentinel of the run was generated by its process.
OnlyTask(t) == target = {t}

SentinelsOfKind(t, IsKind(_)) ==
  {i \in 1..Len(task[t].crypted_path) : IsKind(task[t].crypted_path[i])}

NumberedFromZero(t, IsKind(_), prefix) ==
  LET S == SentinelsOfKind(t, IsKind)
  IN  {task[t].crypted_path[i].s : i \in S}
        = {prefix \o ToString(n) : n \in 0..(Cardinality(S) - 1)}

C18_IndependentCounters ==
  \A t \in target :
     OnlyTask(t) =>
       /\ NumberedFromZero(t, IsDirSentinel, "MALFORMED_DIR_NAME_")
       /\ NumberedFromZero(t, IsFileSentinel, "MALFORMED_FILE_NAME_")

(***************************************************************************)
(* C19  The DirectoryMap is the only state carried between tasks: what a   *)
(* task produces depends on nothing an earlier task left behind outside    *)
(* the map and the filesystem.  A task generates at most one sentinel per  *)
(* directory of its path before the sentinel of its file name, so, were    *)
(* the numbering to start afresh in every task, the number of its file     *)
(* sentinel would be at most the number of its directories.                *)
(***************************************************************************)
FileSentinelsUpTo(n) ==
  {"MALFORMED_FILE_NAME_" \o ToString(k) : k \in 0..n}

C19_NothingCarried ==
  \A t \in target :
     (Built(t) /\ IsFileSentinel(Last(task[t].crypted_path)))
        => Last(task[t].crypted_path).s \in FileSentinelsUpTo(Len(File(t).dirs))

(***************************************************************************)
(* C20  Terminal file segments are never cached: every key of the          *)
(* DirectoryMap is a cumulative intermediate directory path of a walked    *)
(* file and none is the whole path of a file, and the step that translates *)
(* the terminal file segment leaves the map as it was.                     *)
(***************************************************************************)
FilePath(t) == Append(File(t).dirs, File(t).file)

KeysAreDirectories ==
  \A k \in DOMAIN visited_dirs :
     /\ \E t \in target : \E j \in 1..Len(File(t).dirs) : k = DirKey(t, j)
     /\ \A t \in target : k # FilePath(t)

C20_FilesNotCached ==
  [][/\ KeysAreDirectories'
     /\ \A t \in target :
          (task[t].pc = "file" /\ task'[t].pc # "file")
             => visited_dirs' = visited_dirs]_vars

\* A task below two directories has its whole destination path.
C20_Witness ==
  \E t \in target :
     /\ Built(t) /\ Len(File(t).dirs) = 2 /\ task[t].pc = "create"
     /\ DOMAIN visited_dirs = {DirKey(t, 1), DirKey(t, 2)}

(***************************************************************************)
(* C21  Short input rejection: a block shorter than 44 bytes opens to None *)
(* and _decrypt calls neither derive_key nor the cipher for it; for a      *)
(* block of at least 44 bytes the key is derived from bytes 0..15 as salt, *)
(* bytes 16..27 are the nonce and the remainder is handed to the cipher as *)
(* ciphertext and tag.                                                     *)
(***************************************************************************)
HasOpened == c_pc \in {"opened", "flipped", "truncated"}

\* Bytes a .. b - 1 (counted from 0) of the block handed to _decrypt.
ReadBytes(a, b) == [i \in 1..(b - a) |-> c_read[a + i]]

C21_ShortInputRejected ==
  HasOpened =>
    /\ Len(c_read) < 44 => (c_out = None /\ c_calls = << >>)
    /\ Len(c_read) >= 44 =>
         /\ c_calls = <<"derive_key", "ChaCha20Poly1305.decrypt">>
         /\ c_out = ChaChaDecrypt(derive_key(c_dpsw, ReadBytes(0, 16)),
                                  ReadBytes(16, 28),
                                  ReadBytes(28, Len(c_read)))

\* A sealed block cut to 43 bytes, one short of the smallest block.
C21_Witness ==
  /\ c_pc = "truncated" /\ Len(c_read) = 43
  /\ c_out = None /\ c_calls = << >>

(***************************************************************************)
(* C22  Wire size arithmetic: the block _encrypt makes of a chunk of n     *)
(* bytes, n at most the encryptor's read size R, has exactly n + 44 bytes, *)
(* laid out as the 16 byte salt, the 12 byte nonce, n bytes of ciphertext  *)
(* and the 16 byte tag over them, and is no longer than the encryptor's    *)
(* write_len and the decryptor's read size, both R + 44; a block of m      *)
(* bytes, 44 <= m <= R + 44, that _decrypt accepts yields m - 44 <= R      *)
(* bytes.                                                                  *)
(***************************************************************************)
\* Bytes a .. b - 1 (counted from 0) of the block _encrypt returned.
WireBytes(a, b) == [i \in 1..(b - a) |-> c_wire[a + i]]

SealedLayout ==
  LET n == Len(c_plain)
  IN  /\ n <= ENC_READ_SIZE
      /\ Len(c_wire) = n + 44
      /\ \E r \in 1..MaxRand : WireBytes(0, 16) = SaltOf(r)
      /\ \E q \in 1..MaxRand : WireBytes(16, 28) = NonceOf(q)
      /\ WireBytes(28 + n, 44 + n)
           = Poly1305Tag(derive_key(c_psw, WireBytes(0, 16)),
                         WireBytes(16, 28), WireBytes(28, 28 + n))
      /\ write_len = ENC_READ_SIZE + 44
      /\ DEC_READ_SIZE = ENC_READ_SIZE + 44
      /\ Len(c_wire) <= write_len
      /\ Len(c_wire) <= DEC_READ_SIZE

C22_WireSize ==
  /\ c_pc # "idle" => SealedLayout
  /\ (HasOpened /\ c_out.ok)
       => /\ Len(c_read) >= 44 /\ Len(c_read) <= ENC_READ_SIZE + 44
          /\ Len(c_out.val) = Len(c_read) - 44
          /\ Len(c_out.val) <= ENC_READ_SIZE

\* A full chunk, sealed into a block of the largest size and opened again.
C22_Witness ==
  /\ c_pc = "opened" /\ c_out.ok
  /\ Len(c_plain) = ENC_READ_SIZE
  /\ Len(c_wire) = DEC_READ_SIZE
  /\ Len(c_out.val) = ENC_READ_SIZE

(***************************************************************************)
(* C23  Encryption mode has no malformed outcome: in every state of an     *)
(* encrypting run no sentinel name has been generated (no process has the  *)
(* counter, no destination path or map entry holds a sentinel),            *)
(* write_crypted_contents has not returned False for any task, and no      *)
(* destination has been relabeled: every output file is at the path its    *)
(* task built for it.                                                      *)
(***************************************************************************)
NoSentinelGenerated ==
  /\ \A w \in Workers : increment[w] = NoAttribute
  /\ \A k \in DOMAIN visited_dirs :
        ~IsDirSentinel(visited_dirs[k]) /\ ~IsFileSentinel(visited_dirs[k])
  /\ \A t \in target : ~HasSentinel(task[t].crypted_path)

NeverReturnedFalse ==
  \A t \in target :
     task[t].pc \notin {"label", "probe", "rename"} /\ task[t].out # "malformed"

NothingRelabeled ==
  /\ \A t \in target : task[t].malformed_file = << >> /\ task[t].cand = NoItem
  /\ \A p \in DOMAIN fs : p = task[fs[p]].crypted_path

C23_EncryptNeverMalformed ==
  _mode = "Encrypt" =>
    (NoSentinelGenerated /\ NeverReturnedFalse /\ NothingRelabeled)

\* An encrypting run of two files has finished, every file written.
C23_Witness ==
  /\ _mode = "Encrypt" /\ m_pc = "finished"
  /\ Cardinality(target) = 2
  /\ \A t \in target : task[t].out = "ok" /\ IsFile(task[t].crypted_path)

(***************************************************************************)
(* C24  Lock discipline and deadlock freedom: the lock is held by exactly  *)
(* the task inside the lookup / compute / insert block, a task holding it  *)
(* waits for nothing, a task outside the block (having left it normally or *)
(* by an exception) does not hold it, and every task that requested the    *)
(* lock obtained it and every build_file_path call terminated: when the    *)
(* program has ended, each task that entered build_file_path has its whole *)
(* destination path or has raised.                                         *)
(***************************************************************************)
HoldsLock(t) == lock = t

LockDiscipline ==
  /\ \A t \in InLockedBlock : HoldsLock(t)
  /\ \A t \in target :
        (task[t].pc \notin {"get", "compute", "unlock", "killed"})
           => ~HoldsLock(t)
  /\ lock # 0 => lock \in target

\* Task t has entered build_file_path.
Entered(t) == task[t].i >= 1

BuildTerminated(t) == Built(t) \/ task[t].pc = "raised"

C24_LockAndTermination ==
  /\ LockDiscipline
  /\ m_pc \in {"finished", "crashed"}
       => \A t \in target : Entered(t) => BuildTerminated(t)

=============================================================================
